---- MODULE Spec2Model ----
(***************************************************************************)
(* Model of src/src/lib.rs: the slotted Collection (a Vec<Option<u8>> plus *)
(* a CollectionState summary), its add/take/len/is_empty operations and    *)
(* its three iterators.                                                    *)
(*                                                                         *)
(* Storage indices are 0-based as in the source; the TLA+ sequence `inner` *)
(* is 1-based, so slot i of the source is inner[i + 1].                    *)
(* A slot Option<u8> is modelled as a sequence: <<>> is None, <<v>> is     *)
(* Some(v).                                                                *)
(* A panic is modelled as the outcome of the call: the collection is left  *)
(* as the code had mutated it at the point of the panic, and the caller    *)
(* (e.g. under catch_unwind) may keep using it.                            *)
(***************************************************************************)
EXTENDS Integers, Sequences, FiniteSets, TLC

\* ---------------------------------------------------------------- bounds
MaxAdds == 4    \* add calls that return, per collection
MaxItem == 2    \* items are drawn from 1..MaxItem
MaxNext == 6    \* calls of next per traversal
MaxTakes == 4   \* take calls that return, per collection, when slots are also written directly

Items == 1..MaxItem

\* Stand-in for the maximum of the unsigned types (u32::MAX, usize::MAX): the
\* largest integer TLC represents.  Only its being above every length and
\* count of the model matters.
WrapMax == 2147483647

VARIABLES
    inner,            \* Collection.inner : Vec<Option<u8>>
    state,            \* Collection.state : CollectionState
    iter,             \* the live CollectionIter, if any: mode, pos, calls made
    yielded,          \* the slots the live iterator has yielded so far, in order
    last,             \* the last call and how it ended
    adds,             \* add calls that returned, on this collection
    takes,            \* take calls that returned, on this collection
    overflow_checks   \* build profile: TRUE = arithmetic overflow panics (debug)

vars == <<inner, state, iter, yielded, last, adds, takes, overflow_checks>>

\* ------------------------------------------------------------ Option<u8>
None == <<>>
Some(v) == <<v>>
is_none(slot) == slot = None
is_some(slot) == slot # None

\* ------------------------------------------------------- CollectionState
Empty == [tag |-> "Empty", n |-> 0, avail |-> 0]
Full(n) == [tag |-> "Full", n |-> n, avail |-> 0]
NotFull(n, avail) == [tag |-> "NotFull", n |-> n, avail |-> avail]

\* a - b on an unsigned type: ovf tells that it underflowed, val is the
\* wrapped result a build without overflow checks continues with.
sub(a, b) ==
    IF a >= b THEN [ovf |-> FALSE, val |-> a - b]
    ELSE [ovf |-> TRUE, val |-> WrapMax - (b - a) + 1]

\* a + 1 on an unsigned type: ovf tells that it overflowed, val is the
\* wrapped result a build without overflow checks continues with.
inc(a) ==
    IF a < WrapMax THEN [ovf |-> FALSE, val |-> a + 1]
    ELSE [ovf |-> TRUE, val |-> 0]

\* Result of a call on the collection.
Result(s, st, outcome, ret) ==
    [inner |-> s, state |-> st, outcome |-> outcome, ret |-> ret]

\* ------------------------------------------------------------------- add
\* scan testing is_some instead of is_none.
RECURSIVE scan_occupied(_, _, _)
scan_occupied(s, n, i) ==
    IF i >= n THEN [outcome |-> "panic_notfull", i |-> i]
    ELSE IF i >= Len(s) THEN [outcome |-> "panic_bounds", i |-> i]
    ELSE IF is_some(s[i + 1]) THEN [outcome |-> "ok", i |-> i]
    ELSE scan_occupied(s, n, i + 1)

\* `for i in 0..n`: the first i in i..n-1 whose slot is vacant.
RECURSIVE scan(_, _, _)
scan(s, n, i) ==
    IF i >= n THEN [outcome |-> "panic_notfull", i |-> i]
    ELSE IF i >= Len(s) THEN [outcome |-> "panic_bounds", i |-> i]
    ELSE IF is_none(s[i + 1]) THEN [outcome |-> "ok", i |-> i]
    ELSE scan(s, n, i + 1)

\* add returning the new length instead of the index pushed at.
add_returns_len(s, st, item, checks) ==
    LET n == inc(st.n) IN
    CASE st.tag = "Empty" ->
            Result(Append(s, Some(item)), Full(1), "ok", <<1>>)
      [] st.tag = "Full" ->
            IF n.ovf /\ checks
            THEN Result(s, st, "panic_overflow", <<>>)
            ELSE Result(Append(s, Some(item)), Full(n.val), "ok", <<n.val>>)
      [] st.tag = "NotFull" ->
            LET avail == sub(st.avail, 1) IN
            IF avail.ovf /\ checks
            THEN Result(s, st, "panic_overflow", <<>>)
            ELSE LET r == scan(s, st.n, 0) IN
                 IF r.outcome # "ok"
                 THEN Result(s, st, r.outcome, <<>>)
                 ELSE IF n.ovf /\ checks
                 THEN Result([s EXCEPT ![r.i + 1] = Some(item)], st,
                             "panic_overflow", <<>>)
                 ELSE Result([s EXCEPT ![r.i + 1] = Some(item)],
                             IF avail.val > 0
                             THEN NotFull(n.val, avail.val)
                             ELSE Full(n.val),
                             "ok", <<r.i>>)

add(s, st, item, checks) ==
    LET n == inc(st.n) IN
    CASE st.tag = "Empty" ->
            Result(Append(s, Some(item)), Full(1), "ok", <<0>>)
      [] st.tag = "Full" ->
            IF n.ovf /\ checks
            THEN Result(s, st, "panic_overflow", <<>>)
            ELSE Result(Append(s, Some(item)), Full(n.val), "ok", <<st.n>>)
      [] st.tag = "NotFull" ->
            LET avail == sub(st.avail, 1) IN
            IF avail.ovf /\ checks
            THEN Result(s, st, "panic_overflow", <<>>)
            ELSE LET r == scan(s, st.n, 0) IN
                 IF r.outcome # "ok"
                 THEN Result(s, st, r.outcome, <<>>)
                 ELSE IF n.ovf /\ checks
                 THEN Result([s EXCEPT ![r.i + 1] = Some(item)], st,
                             "panic_overflow", <<>>)
                 ELSE Result([s EXCEPT ![r.i + 1] = Some(item)],
                             IF avail.val > 0
                             THEN NotFull(n.val, avail.val)
                             ELSE Full(n.val),
                             "ok", <<r.i>>)

\* ------------------------------------------------------------------ take
\* take_state keeping the occupied count when leaving Full.
take_state_keep_count(s, st, item, checks) ==
    LET n == sub(st.n, 1) IN
    CASE st.tag = "Full" ->
            Result(s, NotFull(st.n, 1), "ok", <<item>>)
      [] st.tag = "NotFull" ->
            IF n.ovf /\ checks
            THEN Result(s, st, "panic_overflow", <<>>)
            ELSE Result(s, NotFull(n.val, st.avail + 1), "ok", <<item>>)
      [] st.tag = "Empty" ->
            Result(s, st, "ok", <<item>>)

\* take_state keeping the free count when the state is already NotFull.
take_state_keep_avail(s, st, item, checks) ==
    LET n == sub(st.n, 1) IN
    CASE st.tag = "Full" ->
            IF n.ovf /\ checks
            THEN Result(s, st, "panic_overflow", <<>>)
            ELSE Result(s, NotFull(n.val, 1), "ok", <<item>>)
      [] st.tag = "NotFull" ->
            IF n.ovf /\ checks
            THEN Result(s, st, "panic_overflow", <<>>)
            ELSE Result(s, NotFull(n.val, st.avail), "ok", <<item>>)
      [] st.tag = "Empty" ->
            Result(s, st, "ok", <<item>>)

\* take_state going back to Empty when the last element is taken.
take_state_reclaim_empty(s, st, item, checks) ==
    LET n == sub(st.n, 1) IN
    CASE st.tag = "Full" ->
            IF n.ovf /\ checks
            THEN Result(s, st, "panic_overflow", <<>>)
            ELSE Result(s, IF n.val = 0 THEN Empty ELSE NotFull(n.val, 1),
                        "ok", <<item>>)
      [] st.tag = "NotFull" ->
            IF n.ovf /\ checks
            THEN Result(s, st, "panic_overflow", <<>>)
            ELSE Result(s, IF n.val = 0 THEN Empty
                           ELSE NotFull(n.val, st.avail + 1),
                        "ok", <<item>>)
      [] st.tag = "Empty" ->
            Result(s, st, "ok", <<item>>)

\* take_state leaving Full with a free count of 0.
take_state_zero_avail(s, st, item, checks) ==
    LET n == sub(st.n, 1) IN
    CASE st.tag = "Full" ->
            IF n.ovf /\ checks
            THEN Result(s, st, "panic_overflow", <<>>)
            ELSE Result(s, NotFull(n.val, 0), "ok", <<item>>)
      [] st.tag = "NotFull" ->
            IF n.ovf /\ checks
            THEN Result(s, st, "panic_overflow", <<>>)
            ELSE Result(s, NotFull(n.val, st.avail + 1), "ok", <<item>>)
      [] st.tag = "Empty" ->
            Result(s, st, "ok", <<item>>)

\* The state match of take, given the storage after the slot was vacated.
take_state(s, st, item, checks) ==
    LET n == sub(st.n, 1) IN
    CASE st.tag = "Full" ->
            IF n.ovf /\ checks
            THEN Result(s, st, "panic_overflow", <<>>)
            ELSE Result(s, NotFull(n.val, 1), "ok", <<item>>)
      [] st.tag = "NotFull" ->
            IF n.ovf /\ checks
            THEN Result(s, st, "panic_overflow", <<>>)
            ELSE Result(s, NotFull(n.val, st.avail + 1), "ok", <<item>>)
      [] st.tag = "Empty" ->
            Result(s, st, "ok", <<item>>)

\* take running the state match although the slot was vacant.
take_no_unwrap(s, st, index, checks) ==
    IF index >= Len(s)
    THEN Result(s, st, "panic_bounds", <<>>)
    ELSE IF is_none(s[index + 1])
    THEN take_state(s, st, 0, checks)
    ELSE take_state([s EXCEPT ![index + 1] = None], st, s[index + 1][1], checks)

\* take running the state match although the index was out of bounds.
take_no_bounds(s, st, index, checks) ==
    IF index >= Len(s)
    THEN take_state(s, st, 0, checks)
    ELSE IF is_none(s[index + 1])
    THEN Result(s, st, "panic_unwrap", <<>>)
    ELSE take_state([s EXCEPT ![index + 1] = None], st, s[index + 1][1], checks)

\* take copying the item out without vacating the slot.
take_no_vacate(s, st, index, checks) ==
    IF index >= Len(s)
    THEN Result(s, st, "panic_bounds", <<>>)
    ELSE IF is_none(s[index + 1])
    THEN Result(s, st, "panic_unwrap", <<>>)
    ELSE take_state(s, st, s[index + 1][1], checks)

\* take removing the slot from the storage (Vec::remove) instead of
\* vacating it.
take_remove(s, st, index, checks) ==
    IF index >= Len(s)
    THEN Result(s, st, "panic_bounds", <<>>)
    ELSE IF is_none(s[index + 1])
    THEN Result(s, st, "panic_unwrap", <<>>)
    ELSE take_state(SubSeq(s, 1, index) \o SubSeq(s, index + 2, Len(s)),
                    st, s[index + 1][1], checks)

take(s, st, index, checks) ==
    IF index >= Len(s)
    THEN Result(s, st, "panic_bounds", <<>>)
    ELSE IF is_none(s[index + 1])
    THEN Result(s, st, "panic_unwrap", <<>>)
    ELSE take_state([s EXCEPT ![index + 1] = None], st, s[index + 1][1], checks)

\* --------------------------------------------------------- len, is_empty
len(st) ==
    CASE st.tag = "Full" -> st.n
      [] st.tag = "NotFull" -> st.n
      [] OTHER -> 0

\* is_empty without the NotFull(0, _) arm.
is_empty_only_initial(st) ==
    CASE st.tag = "Empty" -> TRUE
      [] OTHER -> FALSE

is_empty(st) ==
    CASE st.tag = "Empty" -> TRUE
      [] st.tag = "NotFull" -> st.n = 0
      [] OTHER -> FALSE

\* ------------------------------------------------------------- iterators
NoIter == [mode |-> "none", pos |-> 0, calls |-> 0]
CollectionIter(mode) == [mode |-> mode, pos |-> 0, calls |-> 0]

\* Result of a call of next: the new cursor, and the slot yielded if any.
Step(outcome, pos, found, idx) ==
    [outcome |-> outcome, pos |-> pos, found |-> found, idx |-> idx]

\* next_mut leaving the cursor on the slot it yields.
RECURSIVE next_mut_no_advance(_, _)
next_mut_no_advance(s, pos) ==
    LET current_idx == pos IN
    IF current_idx >= Len(s) THEN Step("ok", pos + 1, FALSE, 0)
    ELSE IF is_some(s[current_idx + 1]) THEN Step("ok", pos, TRUE, current_idx)
    ELSE next_mut_no_advance(s, pos + 1)

\* Iterator for CollectionIter<&mut Collection>
RECURSIVE next_mut(_, _)
next_mut(s, pos) ==
    LET current_idx == pos IN
    IF current_idx >= Len(s) THEN Step("ok", pos + 1, FALSE, 0)
    ELSE IF is_some(s[current_idx + 1]) THEN Step("ok", pos + 1, TRUE, current_idx)
    ELSE next_mut(s, pos + 1)

\* Iterator for CollectionIter<&Collection>
RECURSIVE while_none_shared(_, _, _)
while_none_shared(s, pos, limit) ==
    IF pos >= Len(s) THEN Step("panic_bounds", pos, FALSE, 0)
    ELSE IF is_none(s[pos + 1])
    THEN IF pos + 1 > limit
         THEN Step("ok", pos + 1, FALSE, 0)
         ELSE while_none_shared(s, pos + 1, limit)
    ELSE Step("ok", pos + 1, TRUE, pos)

\* next_shared rewinding the cursor when it signals the end.
next_shared_restart(s, pos, checks) ==
    LET limit == sub(Len(s), 1) IN
    IF limit.ovf /\ checks THEN Step("panic_overflow", pos, FALSE, 0)
    ELSE IF pos > limit.val THEN Step("ok", 0, FALSE, 0)
    ELSE while_none_shared(s, pos, limit.val)

next_shared(s, pos, checks) ==
    LET limit == sub(Len(s), 1) IN
    IF limit.ovf /\ checks THEN Step("panic_overflow", pos, FALSE, 0)
    ELSE IF pos > limit.val THEN Step("ok", pos, FALSE, 0)
    ELSE while_none_shared(s, pos, limit.val)

\* Iterator for CollectionIter<Collection>
RECURSIVE while_none_owned(_, _, _)
while_none_owned(s, pos, limit) ==
    IF pos >= Len(s) THEN Step("panic_bounds", pos, FALSE, 0)
    ELSE IF is_none(s[pos + 1])
    THEN IF pos + 1 > limit
         THEN Step("ok", pos + 1, FALSE, 0)
         ELSE while_none_owned(s, pos + 1, limit)
    ELSE Step("ok", pos + 1, TRUE, pos)

next_owned(s, pos, checks) ==
    LET limit == sub(Len(s), 1) IN
    IF limit.ovf /\ checks THEN Step("panic_overflow", pos, FALSE, 0)
    ELSE IF pos > limit.val THEN Step("ok", pos, FALSE, 0)
    ELSE while_none_owned(s, pos, limit.val)

\* ---------------------------------------------------------------- calls
Call(op, arg, outcome, ret) ==
    [op |-> op, arg |-> arg, outcome |-> outcome, ret |-> ret]

Init ==
    /\ inner = <<>>
    /\ state = Empty
    /\ iter = NoIter
    /\ yielded = <<>>
    /\ last = Call("new", 0, "ok", <<>>)
    /\ adds = 0
    /\ takes = 0
    /\ overflow_checks \in BOOLEAN

\* Collection::new(): the previous collection and its iterator are dropped.
CallNew ==
    /\ inner' = <<>>
    /\ state' = Empty
    /\ iter' = NoIter
    /\ yielded' = <<>>
    /\ last' = Call("new", 0, "ok", <<>>)
    /\ adds' = 0
    /\ takes' = 0
    /\ UNCHANGED overflow_checks

\* add and take need `&mut self`: no iterator borrows or owns the collection.
CallAdd(item) ==
    /\ iter.mode = "none"
    /\ adds < MaxAdds
    /\ LET r == add(inner, state, item, overflow_checks) IN
        /\ inner' = r.inner
        /\ state' = r.state
        /\ last' = Call("add", item, r.outcome, r.ret)
        /\ adds' = IF r.outcome = "ok" THEN adds + 1 ELSE adds
    /\ UNCHANGED <<iter, yielded, takes, overflow_checks>>

CallTake(index) ==
    /\ iter.mode = "none"
    /\ LET r == take(inner, state, index, overflow_checks) IN
        /\ inner' = r.inner
        /\ state' = r.state
        /\ last' = Call("take", index, r.outcome, r.ret)
        /\ takes' = IF r.outcome = "ok" THEN takes + 1 ELSE takes
    /\ UNCHANGED <<iter, yielded, adds, overflow_checks>>

\* iter(), and into_iter() on &Collection
CallIter ==
    /\ iter.mode = "none"
    /\ iter' = CollectionIter("shared")
    /\ yielded' = <<>>
    /\ last' = Call("iter", 0, "ok", <<>>)
    /\ UNCHANGED <<inner, state, adds, takes, overflow_checks>>

\* iter_mut(), and into_iter() on &mut Collection
CallIterMut ==
    /\ iter.mode = "none"
    /\ iter' = CollectionIter("mut")
    /\ yielded' = <<>>
    /\ last' = Call("iter_mut", 0, "ok", <<>>)
    /\ UNCHANGED <<inner, state, adds, takes, overflow_checks>>

\* into_iter() on Collection: the collection moves into the iterator.
CallIntoIter ==
    /\ iter.mode = "none"
    /\ iter' = CollectionIter("owned")
    /\ yielded' = <<>>
    /\ last' = Call("into_iter", 0, "ok", <<>>)
    /\ UNCHANGED <<inner, state, adds, takes, overflow_checks>>

\* One call of next on the live iterator.
Advance(op, r) ==
    /\ iter' = [iter EXCEPT !.pos = r.pos, !.calls = iter.calls + 1]
    /\ yielded' = IF r.found THEN Append(yielded, r.idx) ELSE yielded
    /\ last' = Call(op, 0, r.outcome,
                    IF r.found THEN inner[r.idx + 1] ELSE None)
    /\ UNCHANGED <<inner, state, adds, takes, overflow_checks>>

CallNextMut ==
    /\ iter.mode = "mut"
    /\ iter.calls < MaxNext
    /\ Advance("next_mut", next_mut(inner, iter.pos))

CallNextShared ==
    /\ iter.mode = "shared"
    /\ iter.calls < MaxNext
    /\ Advance("next_shared", next_shared(inner, iter.pos, overflow_checks))

CallNextOwned ==
    /\ iter.mode = "owned"
    /\ iter.calls < MaxNext
    /\ Advance("next_owned", next_owned(inner, iter.pos, overflow_checks))

\* The caller writes through a `&'a mut u8` the exclusive iterator yielded;
\* every yielded reference stays usable for the whole borrow 'a.
WriteYielded(k, item) ==
    /\ iter.mode = "mut"
    /\ k \in 1..Len(yielded)
    /\ inner' = [inner EXCEPT ![yielded[k] + 1] = Some(item)]
    /\ last' = Call("write", yielded[k], "ok", <<>>)
    /\ UNCHANGED <<state, iter, yielded, adds, takes, overflow_checks>>

\* The shared or exclusive borrow ends; the collection is usable again.
DropIter ==
    /\ iter.mode \in {"shared", "mut"}
    /\ iter' = NoIter
    /\ yielded' = <<>>
    /\ last' = Call("drop_iter", 0, "ok", <<>>)
    /\ UNCHANGED <<inner, state, adds, takes, overflow_checks>>

Next ==
    \/ CallNew
    \/ \E item \in Items : CallAdd(item)
    \/ \E index \in 0..MaxAdds : CallTake(index)
    \/ CallIter
    \/ CallIterMut
    \/ CallIntoIter
    \/ CallNextMut
    \/ CallNextShared
    \/ CallNextOwned
    \/ \E k \in 1..MaxAdds, item \in Items : WriteYielded(k, item)
    \/ DropIter

Spec == Init /\ [][Next]_vars

\* ------------------------------------------------- direct slot access
\* IndexMut for Collection: `&mut self.inner[index]`, then the caller's write
\* of `slot` through the reference; ret is the slot's previous content.
index_mut(s, index, slot) ==
    IF index >= Len(s)
    THEN [inner |-> s, outcome |-> "panic_bounds", ret |-> None]
    ELSE [inner |-> [s EXCEPT ![index + 1] = slot], outcome |-> "ok",
          ret |-> s[index + 1]]

SlotValues == {None} \cup {Some(v) : v \in Items}

\* collection[index] = slot
CallIndexMutAssign(index, slot) ==
    /\ iter.mode = "none"
    /\ LET r == index_mut(inner, index, slot) IN
        /\ inner' = r.inner
        /\ last' = Call("index_assign", index, r.outcome, None)
    /\ UNCHANGED <<state, iter, yielded, adds, takes, overflow_checks>>

\* collection[index].take()
CallIndexMutTake(index) ==
    /\ iter.mode = "none"
    /\ LET r == index_mut(inner, index, None) IN
        /\ inner' = r.inner
        /\ last' = Call("index_take", index, r.outcome, r.ret)
    /\ UNCHANGED <<state, iter, yielded, adds, takes, overflow_checks>>

\* take, while fewer than MaxTakes takes have returned.
CallTakeBounded(index) ==
    /\ takes < MaxTakes
    /\ CallTake(index)

\* add and take interleaved with direct writes through the index accessor.
NextIndexMut ==
    \/ CallNew
    \/ \E item \in Items : CallAdd(item)
    \/ \E index \in 0..MaxAdds : CallTakeBounded(index)
    \/ \E index \in 0..MaxAdds, slot \in SlotValues :
            CallIndexMutAssign(index, slot)
    \/ \E index \in 0..MaxAdds : CallIndexMutTake(index)

SpecIndexMut == Init /\ [][NextIndexMut]_vars

\* ------------------------------------------------------- slot predicates
Slots(s) == 0..(Len(s) - 1)
Occupied(s) == {i \in Slots(s) : is_some(s[i + 1])}
Vacant(s) == {i \in Slots(s) : is_none(s[i + 1])}
Lowest(S) == CHOOSE i \in S : \A j \in S : i <= j

\* The occupied slots below index k, in ascending index order.
RECURSIVE Entries(_, _)
Entries(s, k) ==
    IF k = 0 THEN <<>>
    ELSE IF k > Len(s) THEN Entries(s, Len(s))
    ELSE IF is_some(s[k]) THEN Append(Entries(s, k - 1), k - 1)
    ELSE Entries(s, k - 1)

\* The last call was a next of kind op that yielded a slot / signalled the end.
Yielded(op) == last.op = op /\ last.outcome = "ok" /\ is_some(last.ret)
Ended(op) == last.op = op /\ last.outcome = "ok" /\ is_none(last.ret)

\* ------------------------------------------------------------ properties

\* C1: insertion always succeeds: every call of add returns an index; it
\* never panics, in particular not with "Collection notfull, but no
\* available slot found!".
C1_AddAlwaysSucceeds ==
    last.op = "add" => (last.outcome = "ok" /\ Len(last.ret) = 1)

\* C2: lowest-index-first reuse: an add performed while some storage slot is
\* vacant stores the item in the lowest-index vacant slot, returns that
\* index, and leaves the storage length unchanged.
C2_LowestVacantReuse ==
    [][ (last'.op = "add" /\ Vacant(inner) # {}) =>
            LET i == Lowest(Vacant(inner)) IN
            /\ last'.outcome = "ok"
            /\ last'.ret = <<i>>
            /\ Len(inner') = Len(inner)
            /\ inner'[i + 1] = Some(last'.arg) ]_vars

\* C3: index stability: the index add returns holds the added item; every
\* add or take leaves each occupied slot other than the one taken occupied
\* and with the same item; a take that returns vacates its slot, and no take
\* changes any other slot.
C3_IndexStability ==
    [][ /\ (last'.op = "add" /\ last'.outcome = "ok") =>
                /\ last'.ret[1] \in Slots(inner')
                /\ inner'[last'.ret[1] + 1] = Some(last'.arg)
        /\ last'.op \in {"add", "take"} =>
                \A i \in Occupied(inner) :
                    (last'.op = "take" /\ last'.arg = i)
                    \/ (i \in Slots(inner') /\ inner'[i + 1] = inner[i + 1])
        /\ last'.op = "take" =>
                /\ Len(inner') = Len(inner)
                /\ \A j \in Slots(inner) :
                        j # last'.arg => inner'[j + 1] = inner[j + 1]
                /\ last'.outcome = "ok" => is_none(inner'[last'.arg + 1]) ]_vars

\* An add has reused a slot while two other slots stayed occupied.
C3_Witness ==
    /\ last.op = "add"
    /\ last.outcome = "ok"
    /\ takes >= 1
    /\ last.ret[1] < Len(inner) - 1
    /\ Cardinality(Occupied(inner)) >= 3

\* C4: len() equals the number of occupied slots, which is the number of
\* add calls that returned minus the number of take calls that returned.
C4_LengthCorrect ==
    /\ len(state) = Cardinality(Occupied(inner))
    /\ len(state) = adds - takes

C4_Witness ==
    /\ adds >= 3
    /\ takes >= 2
    /\ state.tag = "NotFull"
    /\ len(state) = adds - takes
    /\ Vacant(inner) # {}

\* C5: owned and shared-borrow iteration never fault, yield exactly the
\* items of the occupied slots passed so far, once each and in ascending
\* index order, and have yielded every occupied slot when next signals the
\* end; also over a collection add was never called on.
C5_OwnedSharedIteration ==
    iter.mode \in {"owned", "shared"} =>
        /\ last.op \in {"next_owned", "next_shared"} => last.outcome = "ok"
        /\ yielded = Entries(inner, iter.pos)
        /\ (Yielded("next_owned") \/ Yielded("next_shared")) =>
                /\ yielded # <<>>
                /\ last.ret = inner[yielded[Len(yielded)] + 1]
        /\ (Ended("next_owned") \/ Ended("next_shared")) =>
                yielded = Entries(inner, Len(inner))

\* What the exclusive iterator has yielded, against the storage and cursor.
C6_Yielded ==
    iter.mode = "mut" =>
        /\ last.op = "next_mut" => last.outcome = "ok"
        /\ yielded = Entries(inner, iter.pos)
        /\ \A k \in 1..Len(yielded) : yielded[k] \in Occupied(inner)
        /\ \A k, l \in 1..Len(yielded) : k < l => yielded[k] < yielded[l]
        /\ Yielded("next_mut") =>
                /\ yielded # <<>>
                /\ yielded[Len(yielded)] = iter.pos - 1
                /\ last.ret = inner[iter.pos]
        /\ Ended("next_mut") => yielded = Entries(inner, Len(inner))

\* C6: exclusive-borrow iteration never faults, yields the occupied slots
\* passed so far, once each and in ascending index order, never a vacant
\* slot and never the same slot twice, has yielded every occupied slot when
\* next signals the end, and its cursor strictly increases on every call.
C6_ExclusiveIteration ==
    /\ []C6_Yielded
    /\ [][last'.op = "next_mut" => iter'.pos > iter.pos]_vars

\* A finished exclusive traversal that yielded two slots and skipped a
\* vacant one.
C6_Witness ==
    /\ iter.mode = "mut"
    /\ Ended("next_mut")
    /\ Len(yielded) >= 2
    /\ \E i \in Vacant(inner) : i < yielded[Len(yielded)]

\* C7: take on a vacant slot inside the storage bounds fails, returns no
\* value, and leaves storage and occupancy state as they were.
C7_DoubleRemoveRejected ==
    [][ (last'.op = "take" /\ last'.arg \in Vacant(inner)) =>
            /\ last'.outcome # "ok"
            /\ is_none(last'.ret)
            /\ inner' = inner
            /\ state' = state ]_vars

C7_Witness ==
    /\ last.op = "take"
    /\ last.outcome = "panic_unwrap"
    /\ last.arg \in Vacant(inner)
    /\ Occupied(inner) # {}

\* The storage is empty whenever the state is Empty.
C8_EmptyStorage == state.tag = "Empty" => Len(inner) = 0

\* C8: take with an index at or beyond the storage length fails and leaves
\* storage and occupancy state unchanged; the storage is empty whenever the
\* state is Empty, so no take returns from state Empty.
C8_OutOfBoundsRejected ==
    /\ []C8_EmptyStorage
    /\ [][ /\ (last'.op = "take" /\ last'.arg >= Len(inner)) =>
                /\ last'.outcome = "panic_bounds"
                /\ is_none(last'.ret)
                /\ inner' = inner
                /\ state' = state
           /\ (last'.op = "take" /\ state.tag = "Empty") =>
                last'.outcome # "ok" ]_vars

\* An out-of-bounds take on a collection of three slots has failed.
C8_Witness ==
    /\ last.op = "take"
    /\ last.outcome = "panic_bounds"
    /\ last.arg >= Len(inner)
    /\ Len(inner) = 3
    /\ Cardinality(Occupied(inner)) = 3

\* C9: take-then-add round trip: after take(i) on a collection in state
\* Full(n), add(v) returns i, leaves the storage length and len() at n, puts
\* v in slot i and leaves every other slot unchanged.
C9_TakeAddRoundTrip ==
    [][ ( /\ last.op = "take"
          /\ last.outcome = "ok"
          /\ state = NotFull(Len(inner) - 1, 1)
          /\ last'.op = "add" ) =>
            /\ last'.outcome = "ok"
            /\ last'.ret = <<last.arg>>
            /\ Len(inner') = Len(inner)
            /\ len(state') = Len(inner)
            /\ inner'[last.arg + 1] = Some(last'.arg)
            /\ \A j \in Slots(inner) :
                    j # last.arg => inner'[j + 1] = inner[j + 1] ]_vars

\* C10: is_empty() is true exactly when no storage slot is occupied, which
\* is exactly when len() is 0.
C10_IsEmptyCorrect ==
    /\ is_empty(state) <=> (Occupied(inner) = {})
    /\ is_empty(state) <=> (len(state) = 0)

\* Every element has been taken: the state is NotFull(0, f).
C10_Witness ==
    /\ state.tag = "NotFull"
    /\ state.n = 0
    /\ Len(inner) >= 2
    /\ is_empty(state)

\* C11: a take that returns gives back exactly the item slot i held before
\* the call, leaves slot i vacant, and leaves the storage length and every
\* other slot unchanged.
C11_TakeEffect ==
    [][ (last'.op = "take" /\ last'.outcome = "ok") =>
            /\ last'.arg \in Occupied(inner)
            /\ last'.ret = inner[last'.arg + 1]
            /\ inner' = [inner EXCEPT ![last'.arg + 1] = None] ]_vars

\* A take has returned item 2 from the middle of three slots.
C11_Witness ==
    /\ last.op = "take"
    /\ last.outcome = "ok"
    /\ last.ret = <<2>>
    /\ last.arg = 1
    /\ Len(inner) = 3
    /\ Occupied(inner) = {0, 2}

\* C12: scan-bound invariant: in every state NotFull(n, avail) every vacant
\* storage slot lies at an index strictly below n (so the scan over 0..n in
\* add finds it).
C12_VacanciesBelowCount ==
    state.tag = "NotFull" => \A i \in Vacant(inner) : i < state.n

\* C13: occupancy-state consistency: whenever the state is not Empty, the
\* occupied count plus the free count (0 in Full) equals the storage length,
\* and the free count is the number of vacant slots.
C13_OccupancyConsistent ==
    state.tag # "Empty" =>
        /\ state.n + state.avail = Len(inner)
        /\ state.avail = Cardinality(Vacant(inner))

\* Two of four slots are vacant after adds and takes.
C13_Witness ==
    /\ state = NotFull(2, 2)
    /\ Len(inner) = 4
    /\ last.op = "take"
    /\ last.outcome = "ok"

\* In state Full(n) the storage has exactly n slots, all of them occupied.
C14_FullStorage ==
    state.tag = "Full" =>
        /\ Len(inner) = state.n
        /\ Vacant(inner) = {}

\* C14: whenever the state is Full(n) the storage has exactly n slots, all
\* occupied, and an add in state Full(n) returns n, the index at which the
\* pushed item is stored.
C14_FullAddIndex ==
    /\ []C14_FullStorage
    /\ [][ (last'.op = "add" /\ state.tag = "Full") =>
                /\ last'.outcome = "ok"
                /\ last'.ret = <<state.n>>
                /\ inner' = Append(inner, Some(last'.arg))
                /\ inner'[state.n + 1] = Some(last'.arg) ]_vars

\* An add has pushed at index 3 while the state was Full(3).
C14_Witness ==
    /\ last.op = "add"
    /\ last.outcome = "ok"
    /\ last.ret = <<3>>
    /\ state = Full(4)
    /\ takes = 0

\* The specified transition table of the occupancy state.
TableAdd(st) ==
    CASE st.tag = "Empty" -> Full(1)
      [] st.tag = "Full" -> Full(st.n + 1)
      [] st.tag = "NotFull" ->
            IF st.avail - 1 > 0
            THEN NotFull(st.n + 1, st.avail - 1)
            ELSE Full(st.n + 1)

TableTake(st) ==
    CASE st.tag = "Full" -> NotFull(st.n - 1, 1)
      [] st.tag = "NotFull" -> NotFull(st.n - 1, st.avail + 1)
      [] OTHER -> st

\* C15: the occupancy state follows the transition table: every add takes
\* Empty to Full(1), Full(n) to Full(n+1), NotFull(n, f) to NotFull(n+1, f-1)
\* or, when f-1 = 0, to Full(n+1), also for n = 0; every take that returns
\* takes Full(n) to NotFull(n-1, 1) and NotFull(n, f) to NotFull(n-1, f+1).
C15_TransitionTable ==
    [][ /\ last'.op = "add" => state' = TableAdd(state)
        /\ (last'.op = "take" /\ last'.outcome = "ok") =>
                state' = TableTake(state) ]_vars

\* Once an add has returned on this collection the state is not Empty.
C16_Populated == adds >= 1 => state.tag # "Empty"

\* C16: once the first add has happened the state is never Empty again, and
\* taking the only occupied element (from Full(1) or NotFull(1, f)) leaves
\* NotFull(0, f + 1) with len() = 0 and is_empty() true.
C16_NeverEmptyAgain ==
    /\ []C16_Populated
    /\ [][ /\ (last'.op # "new" /\ state.tag # "Empty") => state'.tag # "Empty"
           /\ (last'.op = "take" /\ last'.outcome = "ok" /\ state.n = 1) =>
                /\ state' = NotFull(0, state.avail + 1)
                /\ len(state') = 0
                /\ is_empty(state') ]_vars

\* The only occupied element of NotFull(1, 2) has been taken.
C16_Witness ==
    /\ last.op = "take"
    /\ last.outcome = "ok"
    /\ state = NotFull(0, 3)
    /\ Occupied(inner) = {}

\* C17: the storage length of a collection never decreases: take leaves it
\* unchanged, add increases it by exactly one when the state is Empty or
\* Full and leaves it unchanged when the state is NotFull.
C17_LengthMonotonic ==
    [][ /\ last'.op # "new" => Len(inner') >= Len(inner)
        /\ last'.op = "take" => Len(inner') = Len(inner)
        /\ (last'.op = "add" /\ state.tag \in {"Empty", "Full"}) =>
                Len(inner') = Len(inner) + 1
        /\ (last'.op = "add" /\ state.tag = "NotFull") =>
                Len(inner') = Len(inner) ]_vars

\* An add has reused a slot of a three-slot storage after a take.
C17_Witness ==
    /\ last.op = "add"
    /\ last.outcome = "ok"
    /\ Len(inner) = 3
    /\ adds = 4
    /\ takes = 1

NextOps == {"next_mut", "next_shared", "next_owned"}

\* Calls of next on the live iterator that yielded nothing.
EndSignals == iter.calls - Len(yielded)

\* Over storage of length L >= 1 no call of next faults, and L + 1 calls
\* include one that signalled the end.
C18_EndReached ==
    (iter.mode # "none" /\ Len(inner) >= 1) =>
        /\ last.op \in NextOps => last.outcome = "ok"
        /\ iter.calls >= Len(inner) + 1 => EndSignals >= 1

\* C18: every traversal is finite: over storage of length L >= 1 each of
\* the three iterators signals the end (None) within L + 1 calls of next,
\* also when trailing or all slots are vacant, and every next after the
\* first None returns None again.
C18_TraversalFinite ==
    /\ []C18_EndReached
    /\ [][ (last'.op \in NextOps /\ Len(inner) >= 1 /\ EndSignals >= 1) =>
                /\ last'.outcome = "ok"
                /\ is_none(last'.ret)
                /\ yielded' = yielded ]_vars

\* An owned traversal over storage whose trailing slot is vacant has yielded
\* and then signalled the end twice.
C18_Witness ==
    /\ iter.mode = "owned"
    /\ Len(inner) >= 3
    /\ is_none(inner[Len(inner)])
    /\ Len(yielded) >= 1
    /\ EndSignals >= 2
    /\ Ended("next_owned")

\* Every NotFull state has a free count of at least 1, the counters never
\* hold a wrapped value, and no add or take has ended in an overflow panic.
C19_CountersInRange ==
    /\ state.tag = "NotFull" => state.avail >= 1
    /\ state.n <= Len(inner)
    /\ state.avail <= Len(inner)
    /\ last.outcome # "panic_overflow" \/ last.op \notin {"add", "take"}

\* C19: the unsigned counter arithmetic never underflows: every reachable
\* NotFull(n, avail) has avail >= 1, so avail - 1 in add is defined, and
\* every take that gets past extracting the item runs with an occupied count
\* n >= 1, so n - 1 in take is defined.
C19_NoUnderflow ==
    /\ []C19_CountersInRange
    /\ [][ /\ (last'.op = "add" /\ state.tag = "NotFull") =>
                ~sub(state.avail, 1).ovf
           /\ (last'.op = "take" /\ last'.arg \in Occupied(inner)) =>
                /\ state.tag \in {"Full", "NotFull"}
                /\ ~sub(state.n, 1).ovf ]_vars

\* After two takes an add has brought the free count from 2 to 1.
C19_Witness ==
    /\ last.op = "add"
    /\ last.outcome = "ok"
    /\ state = NotFull(2, 1)
    /\ takes = 2
    /\ adds = 4

\* C20: len() equals the number of occupied slots, and the occupied count
\* plus the free count equals the storage length, also when the caller
\* writes slots directly through the mutable index accessor in between add
\* and take calls.
C20_ConsistentUnderIndexMut ==
    /\ len(state) = Cardinality(Occupied(inner))
    /\ state.tag # "Empty" => state.n = Len(inner) - state.avail

====
